---- MODULE Spec2Model ----
(***************************************************************************)
(* bets4sats: the ticket / competition lifecycle of crud.py.               *)
(*                                                                         *)
(* The store is the two tables of migrations.py.  Every `await db.execute` *)
(* or `await db.fetchone` of crud.py is one atomic step of the calling     *)
(* coroutine: between two awaits any other coroutine may run.  Each call   *)
(* of a crud function is carried by one invocation p, whose position is    *)
(* pc[p] and whose local variables are loc[p].                             *)
(***************************************************************************)
EXTENDS Integers, Sequences, FiniteSets, TLC

(* ------------------------------ bounds -------------------------------- *)
NumTickets == 2
MaxAmount == 2
MaxCapacity == 2
NumBuyers == 2
NumFunders == 2
MaxPurgeRuns == 2
LifeTickets == 1
GateTickets == 2
GateProcs == 2
FundTickets == 2
SettleTickets == 3
PurgeTickets == 2
CompleteTickets == 2
ClosedTickets == 2
InventoryTickets == 2
SnapshotTickets == 2
MaxTitles == 2
NumCreators == 2

(* ----------------------------- constants ------------------------------ *)
Titles == <<"A", "B">>
Choices == 0 .. (Len(Titles) - 1)
Amounts == 1 .. MaxAmount
CompIds == {"c1", "c2"}
TicketStates ==
    {"INITIAL", "FUNDED", "WON_UNPAID", "WON_PAID", "WON_PAYMENT_FAILED", "LOST",
     "CANCELLED_UNPAID", "CANCELLED_PAID", "CANCELLED_PAYMENT_FAILED"}

(* A row that is not in its table. *)
NoTicket ==
    [competition |-> "none", amount |-> 0, choice |-> 0, state |-> "ABSENT",
     expired |-> FALSE]
NoCompetition ==
    [state |-> "ABSENT", amount_tickets |-> 0, sold |-> 0, choices |-> <<>>,
     winning_choice |-> -1]
NoLoc ==
    [op |-> "none", tid |-> 0, cid |-> "none", old |-> 0, rowcount |-> 0,
     choices |-> <<>>, w |-> -1, cas |-> FALSE, seen |-> "none", amount |-> 0,
     choice |-> 0, runs |-> 0, complete |-> FALSE, row |-> NoCompetition]

VARIABLES competitions, tickets, pc, loc, snap

vars == <<competitions, tickets, pc, loc, snap>>
store == [competitions |-> competitions, tickets |-> tickets]
Procs == DOMAIN pc
TicketIds == DOMAIN tickets

(* --------------------------- the statements --------------------------- *)
get_competition(cs, id) == cs[id]
get_ticket(tk, id) == tk[id]
Found(row) == row.state # "ABSENT"

(* [{"title": choice["title"], "total": 0} for choice in reversed(...)] *)
ChoicesJson_Reversed(data_choices) ==
    [i \in 1 .. Len(data_choices) |->
        [title |-> data_choices[Len(data_choices) + 1 - i].title, total |-> 0]]

(* [{"title": choice["title"], "total": 0} for choice in json.loads(data.choices)] *)
(* The store holds the decoded value of the TEXT column.                     *)
ChoicesJson(data_choices) ==
    [i \in 1 .. Len(data_choices) |-> [title |-> data_choices[i].title, total |-> 0]]

(* INSERT INTO competitions (..., amount_tickets, ..., sold, choices,        *)
(* winning_choice, state) VALUES (..., :amount_tickets, ..., 0, :choices,    *)
(* -1, 'INITIAL')                                                            *)
CompetitionRow(data) ==
    [state |-> "INITIAL", amount_tickets |-> data.amount_tickets, sold |-> 0,
     choices |-> ChoicesJson(data.choices), winning_choice |-> -1]

create_competition(amount_tickets) ==
    CompetitionRow([amount_tickets |-> amount_tickets,
                    choices |-> [i \in 1 .. Len(Titles) |-> [title |-> Titles[i]]]])

(* INSERT INTO tickets ... state = 'INITIAL' *)
InsertTicket(tk, id, c, a, ch) ==
    [tk EXCEPT ![id] = [competition |-> c, amount |-> a, choice |-> ch,
                        state |-> "INITIAL", expired |-> FALSE]]

(* WHERE id = :id AND state = 'INITIAL' *)
DecrementMatches_AnyValue(cs, id, old) ==
    /\ Found(cs[id])
    /\ cs[id].state = "INITIAL"

(* WHERE id = :id AND amount_tickets = :old_amount_tickets *)
DecrementMatches_AnyState(cs, id, old) ==
    /\ Found(cs[id])
    /\ cs[id].amount_tickets = old

(* WHERE id = :id AND amount_tickets = :old_amount_tickets AND state = 'INITIAL' *)
DecrementMatches(cs, id, old) ==
    /\ Found(cs[id])
    /\ cs[id].amount_tickets = old
    /\ cs[id].state = "INITIAL"

SetAmountTickets(cs, id, n) == [cs EXCEPT ![id].amount_tickets = n]

(* --------------------------- create_ticket ---------------------------- *)
Goto(p, label) == pc' = [pc EXCEPT ![p] = label]
Returned(p) == pc[p] \in {"done", "failed"}

create_ticket_insert(p) ==
    /\ pc[p] = "idle"
    /\ \E c \in CompIds, a \in Amounts, ch \in Choices :
         LET id == CHOOSE t \in TicketIds :
                     /\ ~Found(tickets[t])
                     /\ \A u \in TicketIds : u < t => Found(tickets[u])
         IN /\ \E t \in TicketIds : ~Found(tickets[t])
            /\ tickets' = InsertTicket(tickets, id, c, a, ch)
            /\ loc' = [loc EXCEPT ![p] =
                         [NoLoc EXCEPT !.op = "create_ticket", !.tid = id, !.cid = c]]
    /\ Goto(p, "ct_read")
    /\ UNCHANGED <<competitions, snap>>

create_ticket_read(p) ==
    /\ pc[p] = "ct_read"
    /\ LET competitiondata == get_competition(competitions, loc[p].cid)
       IN IF ~Found(competitiondata)
          THEN Goto(p, "failed") /\ UNCHANGED loc
          ELSE IF competitiondata.state # "INITIAL"
          THEN Goto(p, "ct_get") /\ UNCHANGED loc
          ELSE /\ loc' = [loc EXCEPT ![p].old = competitiondata.amount_tickets]
               /\ Goto(p, "ct_write")
    /\ UNCHANGED <<competitions, tickets, snap>>

create_ticket_write(p) ==
    /\ pc[p] = "ct_write"
    /\ IF DecrementMatches(competitions, loc[p].cid, loc[p].old)
       THEN /\ competitions' =
                 SetAmountTickets(competitions, loc[p].cid, loc[p].old - 1)
            /\ Goto(p, "ct_get")
       ELSE /\ Goto(p, "ct_read")
            /\ UNCHANGED competitions
    /\ loc' = [loc EXCEPT ![p].old = 0]
    /\ UNCHANGED <<tickets, snap>>

create_ticket_return(p) ==
    /\ pc[p] = "ct_get"
    /\ IF Found(get_ticket(tickets, loc[p].tid))
       THEN Goto(p, "done")
       ELSE Goto(p, "failed")
    /\ UNCHANGED <<competitions, tickets, loc, snap>>

(* ------------------------- set_ticket_funded -------------------------- *)
(* WHERE id = :id *)
CasTicketMatches_AnyState(tk, id, old_state) == Found(tk[id])

(* WHERE id = :id AND state = :old_state *)
CasTicketMatches(tk, id, old_state) == Found(tk[id]) /\ tk[id].state = old_state

cas_ticket_state(tk, id, old_state, new_state) ==
    IF CasTicketMatches(tk, id, old_state)
    THEN [tk EXCEPT ![id].state = new_state]
    ELSE tk

(* WHERE FALSE *)
FoldMatches_Never(cs, id, old_sold) == FALSE

(* WHERE id = :id AND state = 'INITIAL' *)
FoldMatches_AnySold(cs, id, old_sold) ==
    /\ Found(cs[id])
    /\ cs[id].state = "INITIAL"

(* WHERE id = :id AND sold = :old_sold AND state = 'INITIAL' *)
FoldMatches(cs, id, old_sold) ==
    /\ Found(cs[id])
    /\ cs[id].sold = old_sold
    /\ cs[id].state = "INITIAL"

(* choices[ticket.choice]["total"] += ticket.amount, on the decoded list *)
AddTotal(choices, choice, amount) ==
    [choices EXCEPT ![choice + 1].total = @ + amount]

set_ticket_funded_cas(p) ==
    /\ pc[p] = "idle"
    /\ \E id \in TicketIds :
         LET cas_success == CasTicketMatches(tickets, id, "INITIAL")
         IN /\ tickets' = cas_ticket_state(tickets, id, "INITIAL", "FUNDED")
            /\ loc' = [loc EXCEPT ![p] =
                         [NoLoc EXCEPT !.op = "set_ticket_funded", !.tid = id,
                                       !.cas = cas_success]]
            /\ IF cas_success THEN Goto(p, "sf_get") ELSE Goto(p, "done")
    /\ UNCHANGED <<competitions, snap>>

set_ticket_funded_get(p) ==
    /\ pc[p] = "sf_get"
    /\ LET ticket == get_ticket(tickets, loc[p].tid)
       IN IF Found(ticket)
          THEN /\ loc' = [loc EXCEPT ![p].cid = ticket.competition,
                                     ![p].choice = ticket.choice,
                                     ![p].amount = ticket.amount]
               /\ Goto(p, "sf_read")
          ELSE Goto(p, "failed") /\ UNCHANGED loc
    /\ UNCHANGED <<competitions, tickets, snap>>

set_ticket_funded_read(p) ==
    /\ pc[p] = "sf_read"
    /\ LET competitiondata == get_competition(competitions, loc[p].cid)
       IN IF ~Found(competitiondata)
          THEN Goto(p, "failed") /\ UNCHANGED loc
          ELSE IF competitiondata.state # "INITIAL"
          THEN Goto(p, "done") /\ UNCHANGED loc
          ELSE /\ loc' = [loc EXCEPT ![p].old = competitiondata.sold,
                                     ![p].choices = competitiondata.choices]
               /\ Goto(p, "sf_write")
    /\ UNCHANGED <<competitions, tickets, snap>>

set_ticket_funded_write(p) ==
    /\ pc[p] = "sf_write"
    /\ IF FoldMatches(competitions, loc[p].cid, loc[p].old)
       THEN /\ competitions' =
                 [competitions EXCEPT
                    ![loc[p].cid].sold = loc[p].old + 1,
                    ![loc[p].cid].choices =
                        AddTotal(loc[p].choices, loc[p].choice, loc[p].amount)]
            /\ Goto(p, "done")
       ELSE /\ Goto(p, "sf_read")
            /\ UNCHANGED competitions
    /\ loc' = [loc EXCEPT ![p].old = 0, ![p].choices = <<>>]
    /\ UNCHANGED <<tickets, snap>>

(* ----------------------- purge_expired_tickets ------------------------ *)
(* `expired` is the truth of  time < now - TICKET_PURGE_TIME  for the row. *)
(* WHERE competition = :competition AND state = 'INITIAL' AND time < :time *)
PurgeRows_AnyState(tk, c) ==
    {t \in DOMAIN tk :
        /\ Found(tk[t])
        /\ tk[t].competition = c
        /\ tk[t].expired}

(* WHERE competition = :competition AND state = 'INITIAL' AND time < :time *)
PurgeRows(tk, c) ==
    {t \in DOMAIN tk :
        /\ Found(tk[t])
        /\ tk[t].competition = c
        /\ tk[t].state = "INITIAL"
        /\ tk[t].expired}

(* DELETE ... LIMIT 1 *)
DeleteRows_OnlyOne(tk, rows) ==
    [t \in DOMAIN tk |->
        IF t \in rows /\ \A u \in rows : t <= u THEN NoTicket ELSE tk[t]]

DeleteRows(tk, rows) == [t \in DOMAIN tk |-> IF t \in rows THEN NoTicket ELSE tk[t]]

(* WHERE id = :id *)
RestoreMatches_AnyValue(cs, id, old) == Found(cs[id])

(* WHERE id = :id AND amount_tickets = :old_amount_tickets *)
RestoreMatches(cs, id, old) == Found(cs[id]) /\ cs[id].amount_tickets = old

purge_expired_tickets_delete(p) ==
    /\ pc[p] \in {"idle", "done"}
    /\ pc[p] = "done" => loc[p].op = "purge_expired_tickets"
    /\ loc[p].runs < MaxPurgeRuns
    /\ LET rows == PurgeRows(tickets, "c1")
       IN /\ tickets' = DeleteRows(tickets, rows)
          /\ loc' = [loc EXCEPT ![p] =
                       [NoLoc EXCEPT !.op = "purge_expired_tickets", !.cid = "c1",
                                     !.rowcount = Cardinality(rows),
                                     !.runs = loc[p].runs + 1]]
          /\ IF Cardinality(rows) = 0 THEN Goto(p, "done") ELSE Goto(p, "pg_read")
    /\ UNCHANGED <<competitions, snap>>

purge_expired_tickets_read(p) ==
    /\ pc[p] = "pg_read"
    /\ LET competitiondata == get_competition(competitions, loc[p].cid)
       IN IF ~Found(competitiondata)
          THEN Goto(p, "failed") /\ UNCHANGED loc
          ELSE /\ loc' = [loc EXCEPT ![p].old = competitiondata.amount_tickets]
               /\ Goto(p, "pg_write")
    /\ UNCHANGED <<competitions, tickets, snap>>

purge_expired_tickets_write(p) ==
    /\ pc[p] = "pg_write"
    /\ IF RestoreMatches(competitions, loc[p].cid, loc[p].old)
       THEN /\ competitions' =
                 SetAmountTickets(competitions, loc[p].cid,
                                  loc[p].old + loc[p].rowcount)
            /\ Goto(p, "done")
       ELSE /\ Goto(p, "pg_read")
            /\ UNCHANGED competitions
    /\ loc' = [loc EXCEPT ![p].old = 0]
    /\ UNCHANGED <<tickets, snap>>

(* The passing of time: an unfunded ticket grows older than the purge window. *)
Expire(t) ==
    /\ Found(tickets[t])
    /\ tickets[t].state = "INITIAL"
    /\ ~tickets[t].expired
    /\ tickets' = [tickets EXCEPT ![t].expired = TRUE]
    /\ UNCHANGED <<competitions, pc, loc, snap>>

(* --------------------- update_competition_winners ---------------------- *)
RECURSIVE SumAmounts(_, _)
SumAmounts(tk, rows) ==
    IF rows = {}
    THEN 0
    ELSE LET t == CHOOSE x \in rows : TRUE
         IN tk[t].amount + SumAmounts(tk, rows \ {t})

CompetitionTickets(tk, c) ==
    {t \in DOMAIN tk : Found(tk[t]) /\ tk[t].competition = c}

(* SELECT choice, SUM(amount) ... WHERE competition = :competition GROUP BY choice *)
sum_choices_amounts(tk, c) ==
    {[choice |-> ch,
      amount_sum |-> SumAmounts(tk, {t \in CompetitionTickets(tk, c) :
                                        tk[t].choice = ch})] :
        ch \in {tk[t].choice : t \in CompetitionTickets(tk, c)}}

(* The caller writes the sums into the competition's list of choices. *)
FinalChoices(choices, sums) ==
    [i \in 1 .. Len(choices) |->
        [title |-> choices[i].title,
         total |-> IF \E r \in sums : r.choice = i - 1
                   THEN (CHOOSE r \in sums : r.choice = i - 1).amount_sum
                   ELSE 0]]

(* WHERE competition = :competition *)
VoidRows_AnyState(tk, c) ==
    {t \in DOMAIN tk : Found(tk[t]) /\ tk[t].competition = c}

(* WHERE competition = :competition AND state = 'INITIAL' *)
VoidRows_WrongState(tk, c) ==
    {t \in DOMAIN tk : Found(tk[t]) /\ tk[t].competition = c /\ tk[t].state = "INITIAL"}

(* WHERE competition = :competition AND state = 'FUNDED' *)
VoidRows(tk, c) ==
    {t \in DOMAIN tk : Found(tk[t]) /\ tk[t].competition = c /\ tk[t].state = "FUNDED"}

(* WHERE competition = :competition AND state = 'FUNDED' *)
WinnerRows_AnyChoice(tk, c, w) ==
    {t \in DOMAIN tk : Found(tk[t]) /\ tk[t].competition = c /\ tk[t].state = "FUNDED"}

(* WHERE competition = :competition AND state = 'FUNDED' AND choice = :winning_choice *)
WinnerRows(tk, c, w) ==
    {t \in DOMAIN tk :
        /\ Found(tk[t])
        /\ tk[t].competition = c
        /\ tk[t].state = "FUNDED"
        /\ tk[t].choice = w}

(* WHERE competition = :competition AND choice != :winning_choice *)
LoserRows_AnyState(tk, c, w) ==
    {t \in DOMAIN tk : Found(tk[t]) /\ tk[t].competition = c /\ tk[t].choice # w}

(* WHERE competition = :competition AND state = 'FUNDED' AND choice != :winning_choice *)
LoserRows(tk, c, w) ==
    {t \in DOMAIN tk :
        /\ Found(tk[t])
        /\ tk[t].competition = c
        /\ tk[t].state = "FUNDED"
        /\ tk[t].choice # w}

SetState(tk, rows, new_state) ==
    [t \in DOMAIN tk |-> IF t \in rows THEN [tk[t] EXCEPT !.state = new_state] ELSE tk[t]]

(* UPDATE competitions SET choices, winning_choice WHERE id = :id *)
SetOutcome(cs, id, choices, w) ==
    IF Found(cs[id])
    THEN [cs EXCEPT ![id].choices = choices, ![id].winning_choice = w]
    ELSE cs

Outcomes == {-1} \cup Choices

(* The caller: sum_choices_amounts, then update_competition_winners. *)
settle_sum(p) ==
    /\ pc[p] = "idle"
    /\ Found(competitions["c1"])
    /\ \E w \in Outcomes :
         loc' = [loc EXCEPT ![p] =
                   [NoLoc EXCEPT !.op = "update_competition_winners", !.cid = "c1",
                                 !.w = w, !.runs = 1,
                                 !.choices =
                                    FinalChoices(competitions["c1"].choices,
                                                 sum_choices_amounts(tickets, "c1"))]]
    /\ Goto(p, "st_comp")
    /\ UNCHANGED <<competitions, tickets, snap>>

update_competition_winners_outcome(p) ==
    /\ pc[p] = "st_comp"
    /\ competitions' = SetOutcome(competitions, loc[p].cid, loc[p].choices, loc[p].w)
    /\ IF loc[p].w < 0 THEN Goto(p, "st_void") ELSE Goto(p, "st_win")
    /\ UNCHANGED <<tickets, loc, snap>>

update_competition_winners_void(p) ==
    /\ pc[p] = "st_void"
    /\ tickets' = SetState(tickets, VoidRows(tickets, loc[p].cid), "CANCELLED_UNPAID")
    /\ Goto(p, "done")
    /\ UNCHANGED <<competitions, loc, snap>>

update_competition_winners_winners(p) ==
    /\ pc[p] = "st_win"
    /\ tickets' = SetState(tickets, WinnerRows(tickets, loc[p].cid, loc[p].w),
                           "WON_UNPAID")
    /\ Goto(p, "st_lose")
    /\ UNCHANGED <<competitions, loc, snap>>

update_competition_winners_losers(p) ==
    /\ pc[p] = "st_lose"
    /\ tickets' = SetState(tickets, LoserRows(tickets, loc[p].cid, loc[p].w), "LOST")
    /\ Goto(p, "done")
    /\ UNCHANGED <<competitions, loc, snap>>

(* The settling process dies between two statements ... *)
settle_crash(p) ==
    /\ pc[p] \in {"st_comp", "st_void", "st_win", "st_lose"}
    /\ loc[p].runs = 1
    /\ Goto(p, "crashed")
    /\ UNCHANGED <<competitions, tickets, loc, snap>>

(* ... and the settlement is invoked again, in full, with the same outcome. *)
settle_restart(p) ==
    /\ pc[p] = "crashed"
    /\ loc' = [loc EXCEPT ![p].runs = 2,
                          ![p].choices =
                             FinalChoices(competitions[loc[p].cid].choices,
                                          sum_choices_amounts(tickets, loc[p].cid))]
    /\ Goto(p, "st_comp")
    /\ UNCHANGED <<competitions, tickets, snap>>

(* ------------------------------- payout -------------------------------- *)
(* UPDATE tickets SET state = :state WHERE id = :id *)
update_ticket(tk, id, new_state) ==
    IF Found(tk[id]) THEN [tk EXCEPT ![id].state = new_state] ELSE tk

PayoutState(seen, paid) ==
    IF seen = "WON_UNPAID"
    THEN (IF paid THEN "WON_PAID" ELSE "WON_PAYMENT_FAILED")
    ELSE (IF paid THEN "CANCELLED_PAID" ELSE "CANCELLED_PAYMENT_FAILED")

(* A payout attempt reads a ticket that awaits its payment ... *)
payout_read(p) ==
    /\ pc[p] = "idle"
    /\ \E id \in TicketIds :
         /\ get_ticket(tickets, id).state \in {"WON_UNPAID", "CANCELLED_UNPAID"}
         /\ loc' = [loc EXCEPT ![p] =
                      [NoLoc EXCEPT !.op = "payout", !.tid = id,
                                    !.seen = get_ticket(tickets, id).state]]
    /\ Goto(p, "py_write")
    /\ UNCHANGED <<competitions, tickets, snap>>

(* ... pays, and records the result with update_ticket. *)
payout_write(p) ==
    /\ pc[p] = "py_write"
    /\ \E paid \in BOOLEAN :
         tickets' = update_ticket(tickets, loc[p].tid, PayoutState(loc[p].seen, paid))
    /\ Goto(p, "ut_get")
    /\ UNCHANGED <<competitions, loc, snap>>

update_ticket_return(p) ==
    /\ pc[p] = "ut_get"
    /\ IF Found(get_ticket(tickets, loc[p].tid))
       THEN Goto(p, "done")
       ELSE Goto(p, "failed")
    /\ UNCHANGED <<competitions, tickets, loc, snap>>

(* --------------------- the competition's own fields -------------------- *)
(* WHERE id = :id AND state = :old_state *)
cas_competition_state(cs, id, old_state, new_state) ==
    IF Found(cs[id]) /\ cs[id].state = old_state
    THEN [cs EXCEPT ![id].state = new_state]
    ELSE cs

close_competition ==
    /\ competitions["c1"].state = "INITIAL"
    /\ competitions' = cas_competition_state(competitions, "c1", "INITIAL", "CLOSED")
    /\ UNCHANGED <<tickets, pc, loc, snap>>

(* UPDATE competitions SET amount_tickets = ... WHERE id = :id AND state = 'INITIAL' *)
update_competition(cs, id, amount_tickets) ==
    IF Found(cs[id]) /\ cs[id].state = "INITIAL"
    THEN SetAmountTickets(cs, id, amount_tickets)
    ELSE cs

update_competition_amount ==
    /\ \E n \in 0 .. MaxCapacity :
         /\ competitions' = update_competition(competitions, "c1", n)
         /\ competitions' # competitions
    /\ UNCHANGED <<tickets, pc, loc, snap>>

(* ------------------- purchases against one competition ----------------- *)
InitCreate ==
    /\ \E cap \in 1 .. MaxCapacity :
         competitions = [c \in CompIds |->
                           IF c = "c1" THEN create_competition(cap) ELSE NoCompetition]
    /\ tickets = [t \in 1 .. NumTickets |-> NoTicket]
    /\ pc = [p \in 1 .. NumBuyers |-> "idle"]
    /\ loc = [p \in 1 .. NumBuyers |-> NoLoc]
    /\ snap = [competitions |-> competitions, tickets |-> tickets]

NextCreate ==
    \/ \E p \in Procs : create_ticket_insert(p)
    \/ \E p \in Procs : create_ticket_read(p)
    \/ \E p \in Procs : create_ticket_write(p)
    \/ \E p \in Procs : create_ticket_return(p)

SpecCreate == InitCreate /\ [][NextCreate]_vars

(* ------------------ the stores a quiet system can be in ----------------- *)
(* Tickets bought one after the other in a competition created with room   *)
(* for all of them, some of them funded since: the rows, and the           *)
(* competition row that create_ticket and set_ticket_funded leave behind.  *)
TicketRows(amounts, states, expiry) ==
    {NoTicket} \cup
    {r \in [competition : {"c1"}, amount : amounts, choice : Choices,
            state : states, expired : expiry] :
        r.expired => r.state = "INITIAL"}

Populations(n, amounts, states, expiry) ==
    [1 .. n -> TicketRows(amounts, states, expiry)]

FundedOnly(tk) == [t \in DOMAIN tk |-> IF tk[t].state = "FUNDED" THEN tk[t] ELSE NoTicket]

PopCompetition(tk) ==
    [create_competition(Cardinality(DOMAIN tk)) EXCEPT
        !.amount_tickets = @ - Cardinality(CompetitionTickets(tk, "c1")),
        !.sold = Cardinality(CompetitionTickets(FundedOnly(tk), "c1")),
        !.choices = FinalChoices(@, sum_choices_amounts(FundedOnly(tk), "c1"))]

InitPopulation(tk, procs) ==
    /\ tickets = tk
    /\ competitions = [c \in CompIds |->
                         IF c = "c1" THEN PopCompetition(tk) ELSE NoCompetition]
    /\ pc = [p \in procs |-> "idle"]
    /\ loc = [p \in procs |-> NoLoc]
    /\ snap = [competitions |-> competitions, tickets |-> tickets]

(* ---------------- funding notifications, possibly duplicated ------------ *)
InitFund ==
    \E tk \in Populations(FundTickets, Amounts, {"INITIAL", "FUNDED"}, {FALSE}) :
        InitPopulation(tk, 1 .. NumFunders)

NextFund ==
    \/ \E p \in Procs : set_ticket_funded_cas(p)
    \/ \E p \in Procs : set_ticket_funded_get(p)
    \/ \E p \in Procs : set_ticket_funded_read(p)
    \/ \E p \in Procs : set_ticket_funded_write(p)

SpecFund == InitFund /\ [][NextFund]_vars

(* ------------- one settlement, alone, interrupted at most once ---------- *)
InitSettle ==
    \E tk \in Populations(SettleTickets, Amounts, {"INITIAL", "FUNDED"}, {FALSE}) :
        InitPopulation(tk, {1})

NextSettle ==
    \/ \E p \in Procs : settle_sum(p)
    \/ \E p \in Procs : update_competition_winners_outcome(p)
    \/ \E p \in Procs : update_competition_winners_void(p)
    \/ \E p \in Procs : update_competition_winners_winners(p)
    \/ \E p \in Procs : update_competition_winners_losers(p)
    \/ \E p \in Procs : settle_crash(p)
    \/ \E p \in Procs : settle_restart(p)

SpecSettle == InitSettle /\ [][NextSettle]_vars

(* --------------------- purge runs, one after the other ------------------ *)
InitPurge ==
    \E tk \in Populations(PurgeTickets, Amounts, {"INITIAL", "FUNDED"}, BOOLEAN) :
        InitPopulation(tk, {1})

NextPurge ==
    \/ \E p \in Procs : purge_expired_tickets_delete(p)
    \/ \E p \in Procs : purge_expired_tickets_read(p)
    \/ \E p \in Procs : purge_expired_tickets_write(p)

SpecPurge == InitPurge /\ [][NextPurge]_vars


(* ------------- the life of a ticket: every writer of its state ---------- *)
(* Two calls in flight: every operation overlaps every other, and itself,  *)
(* in every order of their statements.                                      *)
LifeCalls == {"a", "b"}

(* The store before any settlement, or after one settlement with outcome w. *)
InitLife ==
    \E tk \in Populations(LifeTickets, {1}, {"INITIAL", "FUNDED"}, BOOLEAN),
       settled \in BOOLEAN, w \in Outcomes :
        /\ ~settled => w = -1
        /\ tickets =
              IF ~settled THEN tk
              ELSE IF w < 0 THEN SetState(tk, VoidRows(tk, "c1"), "CANCELLED_UNPAID")
              ELSE LET won == SetState(tk, WinnerRows(tk, "c1", w), "WON_UNPAID")
                   IN SetState(won, LoserRows(won, "c1", w), "LOST")
        /\ competitions =
              [c \in CompIds |->
                  IF c # "c1" THEN NoCompetition
                  ELSE IF ~settled THEN PopCompetition(tk)
                  ELSE [PopCompetition(tk) EXCEPT
                          !.choices = FinalChoices(@, sum_choices_amounts(tk, "c1")),
                          !.winning_choice = w]]
        /\ pc = [p \in LifeCalls |-> "idle"]
        /\ loc = [p \in LifeCalls |-> NoLoc]
        /\ snap = [competitions |-> competitions, tickets |-> tickets]

NextLife ==
    \/ \E p \in Procs : create_ticket_insert(p)
    \/ \E p \in Procs : create_ticket_read(p)
    \/ \E p \in Procs : create_ticket_write(p)
    \/ \E p \in Procs : create_ticket_return(p)
    \/ \E p \in Procs : set_ticket_funded_cas(p)
    \/ \E p \in Procs : set_ticket_funded_get(p)
    \/ \E p \in Procs : set_ticket_funded_read(p)
    \/ \E p \in Procs : set_ticket_funded_write(p)
    \/ \E p \in Procs : purge_expired_tickets_delete(p)
    \/ \E p \in Procs : purge_expired_tickets_read(p)
    \/ \E p \in Procs : purge_expired_tickets_write(p)
    \/ \E p \in Procs : settle_sum(p)
    \/ \E p \in Procs : update_competition_winners_outcome(p)
    \/ \E p \in Procs : update_competition_winners_void(p)
    \/ \E p \in Procs : update_competition_winners_winners(p)
    \/ \E p \in Procs : update_competition_winners_losers(p)
    \/ \E p \in Procs : payout_read(p)
    \/ \E p \in Procs : payout_write(p)
    \/ \E p \in Procs : update_ticket_return(p)
    \/ \E t \in TicketIds : Expire(t)

SpecLife == InitLife /\ [][NextLife]_vars

(* -------------- the INITIAL gate on the competition's aggregates -------- *)
InitGate ==
    \E tk \in Populations(GateTickets, {1}, {"INITIAL", "FUNDED"}, BOOLEAN) :
        InitPopulation(tk, 1 .. GateProcs)

NextGate ==
    \/ \E p \in Procs : create_ticket_insert(p)
    \/ \E p \in Procs : create_ticket_read(p)
    \/ \E p \in Procs : create_ticket_write(p)
    \/ \E p \in Procs : create_ticket_return(p)
    \/ \E p \in Procs : set_ticket_funded_cas(p)
    \/ \E p \in Procs : set_ticket_funded_get(p)
    \/ \E p \in Procs : set_ticket_funded_read(p)
    \/ \E p \in Procs : set_ticket_funded_write(p)
    \/ \E p \in Procs : purge_expired_tickets_delete(p)
    \/ \E p \in Procs : purge_expired_tickets_read(p)
    \/ \E p \in Procs : purge_expired_tickets_write(p)
    \/ close_competition
    \/ update_competition_amount

SpecGate == InitGate /\ [][NextGate]_vars

(* ------------------ is_competition_payment_complete -------------------- *)
(* WHERE competition = :competition AND state NOT IN ('CANCELLED_PAID',     *)
(* 'CANCELLED_PAYMENT_FAILED', 'WON_PAID', 'WON_PAYMENT_FAILED')            *)
UnpaidRows_LostOpen(tk, c) ==
    {t \in DOMAIN tk :
        /\ Found(tk[t])
        /\ tk[t].competition = c
        /\ tk[t].state \notin {"CANCELLED_PAID", "CANCELLED_PAYMENT_FAILED", "WON_PAID",
                               "WON_PAYMENT_FAILED"}}

(* WHERE competition = :competition AND state NOT IN ('CANCELLED_PAID',     *)
(* 'CANCELLED_PAYMENT_FAILED', 'WON_PAID', 'WON_PAYMENT_FAILED', 'LOST')    *)
UnpaidRows(tk, c) ==
    {t \in DOMAIN tk :
        /\ Found(tk[t])
        /\ tk[t].competition = c
        /\ tk[t].state \notin {"CANCELLED_PAID", "CANCELLED_PAYMENT_FAILED", "WON_PAID",
                               "WON_PAYMENT_FAILED", "LOST"}}

(* row = fetchone(... LIMIT 1); return not bool(row) *)
is_competition_payment_complete(tk, c) == UnpaidRows(tk, c) = {}

is_competition_payment_complete_fetch(p) ==
    /\ pc[p] = "idle"
    /\ \E c \in CompIds :
         loc' = [loc EXCEPT ![p] =
                   [NoLoc EXCEPT !.op = "is_competition_payment_complete", !.cid = c,
                                 !.complete = is_competition_payment_complete(tickets, c)]]
    /\ Goto(p, "done")
    /\ UNCHANGED <<competitions, tickets, snap>>

(* Every content of the tickets table: tickets of two competitions, in any  *)
(* of the states.                                                           *)
AnyRows ==
    {NoTicket} \cup
    [competition : CompIds, amount : {1}, choice : {0}, state : TicketStates,
     expired : {FALSE}]

InitComplete ==
    /\ tickets \in [1 .. CompleteTickets -> AnyRows]
    /\ competitions = [c \in CompIds |-> create_competition(CompleteTickets)]
    /\ pc = [p \in {1} |-> "idle"]
    /\ loc = [p \in {1} |-> NoLoc]
    /\ snap = [competitions |-> competitions, tickets |-> tickets]

NextComplete == \E p \in Procs : is_competition_payment_complete_fetch(p)

SpecComplete == InitComplete /\ [][NextComplete]_vars

(* -------------------------- create_competition ------------------------- *)
(* data.choices: a list of {"title": ...} objects, of any length.            *)
RECURSIVE TitleLists(_)
TitleLists(n) ==
    IF n = 0
    THEN {<<>>}
    ELSE TitleLists(n - 1) \cup
         {Append(l, [title |-> x]) : l \in {m \in TitleLists(n - 1) : Len(m) = n - 1},
                                     x \in {"A", "B"}}

create_competition_insert(p) ==
    /\ pc[p] = "idle"
    /\ \E competition_id \in {c \in CompIds : ~Found(competitions[c])},
          choices \in TitleLists(MaxTitles), amount_tickets \in 0 .. MaxCapacity :
         /\ competitions' =
               [competitions EXCEPT
                  ![competition_id] = CompetitionRow([amount_tickets |-> amount_tickets,
                                                      choices |-> choices])]
         /\ loc' = [loc EXCEPT ![p] =
                      [NoLoc EXCEPT !.op = "create_competition", !.cid = competition_id,
                                    !.choices = choices, !.amount = amount_tickets]]
    /\ Goto(p, "cc_get")
    /\ UNCHANGED <<tickets, snap>>

create_competition_get(p) ==
    /\ pc[p] = "cc_get"
    /\ LET competition == get_competition(competitions, loc[p].cid)
       IN IF Found(competition)
          THEN loc' = [loc EXCEPT ![p].row = competition] /\ Goto(p, "done")
          ELSE Goto(p, "failed") /\ UNCHANGED loc
    /\ UNCHANGED <<competitions, tickets, snap>>

InitRoundTrip ==
    /\ competitions = [c \in CompIds |-> NoCompetition]
    /\ tickets = <<>>
    /\ pc = [p \in 1 .. NumCreators |-> "idle"]
    /\ loc = [p \in 1 .. NumCreators |-> NoLoc]
    /\ snap = [competitions |-> competitions, tickets |-> tickets]

NextRoundTrip ==
    \/ \E p \in Procs : create_competition_insert(p)
    \/ \E p \in Procs : create_competition_get(p)

SpecRoundTrip == InitRoundTrip /\ [][NextRoundTrip]_vars

(* --------------- purchases while the competition is closed ------------- *)
(* Two purchases in flight, in every order of their statements with the    *)
(* closing of the competition.                                              *)
ClosedCalls == {"a", "b"}

InitClosed ==
    /\ \E cap \in 1 .. MaxCapacity :
         competitions = [c \in CompIds |->
                           IF c = "c1" THEN create_competition(cap) ELSE NoCompetition]
    /\ tickets = [t \in 1 .. ClosedTickets |-> NoTicket]
    /\ pc = [p \in ClosedCalls |-> "idle"]
    /\ loc = [p \in ClosedCalls |-> NoLoc]
    /\ snap = [competitions |-> competitions, tickets |-> tickets]

NextClosed ==
    \/ \E p \in Procs : create_ticket_insert(p)
    \/ \E p \in Procs : create_ticket_read(p)
    \/ \E p \in Procs : create_ticket_write(p)
    \/ \E p \in Procs : create_ticket_return(p)
    \/ close_competition

SpecClosed == InitClosed /\ [][NextClosed]_vars

(* ------------------ the inventory of an open competition --------------- *)
(* Two calls in flight, each a purchase, a funding notification or a run of *)
(* purge runs, while tickets grow older.                                    *)
InventoryCalls == {"a", "b"}

(* The store holds tickets bought and not yet funded, some of them older    *)
(* than the purge window.                                                   *)
InitInventory ==
    \E tk \in Populations(InventoryTickets, {1}, {"INITIAL"}, BOOLEAN) :
        InitPopulation(tk, InventoryCalls)

NextInventory ==
    \/ \E p \in Procs : create_ticket_insert(p)
    \/ \E p \in Procs : create_ticket_read(p)
    \/ \E p \in Procs : create_ticket_write(p)
    \/ \E p \in Procs : create_ticket_return(p)
    \/ \E p \in Procs : set_ticket_funded_cas(p)
    \/ \E p \in Procs : set_ticket_funded_get(p)
    \/ \E p \in Procs : set_ticket_funded_read(p)
    \/ \E p \in Procs : set_ticket_funded_write(p)
    \/ \E p \in Procs : purge_expired_tickets_delete(p)
    \/ \E p \in Procs : purge_expired_tickets_read(p)
    \/ \E p \in Procs : purge_expired_tickets_write(p)
    \/ \E t \in TicketIds : Expire(t)

SpecInventory == InitInventory /\ [][NextInventory]_vars

(* ----------------- the retry loops, every call scheduled ---------------- *)
(* The statements of call p after its first: the event loop resumes every   *)
(* coroutine whose awaited statement has completed.                         *)
Resume(p) ==
    \/ create_ticket_read(p)
    \/ create_ticket_write(p)
    \/ create_ticket_return(p)
    \/ set_ticket_funded_get(p)
    \/ set_ticket_funded_read(p)
    \/ set_ticket_funded_write(p)
    \/ purge_expired_tickets_read(p)
    \/ purge_expired_tickets_write(p)

NextRetry ==
    \/ \E p \in Procs : create_ticket_insert(p)
    \/ \E p \in Procs : create_ticket_read(p)
    \/ \E p \in Procs : create_ticket_write(p)
    \/ \E p \in Procs : create_ticket_return(p)
    \/ \E p \in Procs : set_ticket_funded_cas(p)
    \/ \E p \in Procs : set_ticket_funded_get(p)
    \/ \E p \in Procs : set_ticket_funded_read(p)
    \/ \E p \in Procs : set_ticket_funded_write(p)
    \/ \E p \in Procs : purge_expired_tickets_delete(p)
    \/ \E p \in Procs : purge_expired_tickets_read(p)
    \/ \E p \in Procs : purge_expired_tickets_write(p)

SpecRetry ==
    /\ InitInventory
    /\ [][NextRetry]_vars
    /\ \A p \in InventoryCalls : WF_vars(Resume(p))

(* ------------- a settlement beside funding notifications --------------- *)
(* Two calls in flight, each a settlement or a funding notification.        *)
SnapshotCalls == {"a", "b"}

InitSnapshot ==
    \E tk \in Populations(SnapshotTickets, {1}, {"INITIAL", "FUNDED"}, {FALSE}) :
        InitPopulation(tk, SnapshotCalls)

NextSnapshot ==
    \/ \E p \in Procs : set_ticket_funded_cas(p)
    \/ \E p \in Procs : set_ticket_funded_get(p)
    \/ \E p \in Procs : set_ticket_funded_read(p)
    \/ \E p \in Procs : set_ticket_funded_write(p)
    \/ \E p \in Procs : settle_sum(p)
    \/ \E p \in Procs : update_competition_winners_outcome(p)
    \/ \E p \in Procs : update_competition_winners_void(p)
    \/ \E p \in Procs : update_competition_winners_winners(p)
    \/ \E p \in Procs : update_competition_winners_losers(p)

SpecSnapshot == InitSnapshot /\ [][NextSnapshot]_vars

(* ============================== the claims ============================= *)
Competition == competitions["c1"]

(* C1: inventory is never oversold: while the competition stays INITIAL and *)
(* only create_ticket runs, amount_tickets is >= 0 in every reachable state. *)
C1_NeverOversold == Competition.state = "INITIAL" => Competition.amount_tickets >= 0

(* C9: create_ticket for a competition id that does not exist persists      *)
(* nothing: once the call has aborted, the ticket store holds no ticket     *)
(* with the requested id, and no competition record has changed (checked    *)
(* where no other call has touched the store).                              *)
C9_NothingPersisted ==
    \A p \in Procs :
        (/\ loc[p].op = "create_ticket"
         /\ pc[p] = "failed"
         /\ ~Found(competitions[loc[p].cid]))
        => /\ ~Found(tickets[loc[p].tid])
           /\ (\A q \in Procs \ {p} : pc[q] = "idle") => competitions = snap.competitions

(* The set_ticket_funded calls made for ticket t.                          *)
FundCalls(t) == {p \in Procs : loc[p].op = "set_ticket_funded" /\ loc[p].tid = t}

(* C2: exactly-once funding fold.  Of the set_ticket_funded calls made for  *)
(* one ticket that was INITIAL, exactly one wins the compare-and-swap; and  *)
(* when N >= 2 calls, all for that ticket, have all returned, sold has      *)
(* grown by exactly 1 and the total of the ticket's choice by exactly the   *)
(* ticket's amount, every other total being unchanged.                      *)
C2_ExactlyOnceFold ==
    \A t \in TicketIds :
        (snap.tickets[t].state = "INITIAL" /\ FundCalls(t) # {})
        => /\ Cardinality({p \in FundCalls(t) : loc[p].cas}) = 1
           /\ (/\ FundCalls(t) = Procs
               /\ Cardinality(Procs) >= 2
               /\ \A p \in Procs : Returned(p))
              => /\ \A p \in Procs : pc[p] = "done"
                 /\ Competition.sold = snap.competitions["c1"].sold + 1
                 /\ Competition.choices =
                        AddTotal(snap.competitions["c1"].choices,
                                 snap.tickets[t].choice, snap.tickets[t].amount)
                 /\ tickets[t].state = "FUNDED"

C2_Witness ==
    \E t \in TicketIds :
        /\ snap.tickets[t].state = "INITIAL"
        /\ FundCalls(t) = Procs
        /\ Cardinality(Procs) >= 2
        /\ \A p \in Procs : pc[p] = "done"
        /\ Competition.sold = snap.competitions["c1"].sold + 1

(* The tickets of the competition that were FUNDED when the settlement was  *)
(* called.                                                                  *)
FundedBefore ==
    {t \in TicketIds :
        snap.tickets[t].competition = "c1" /\ snap.tickets[t].state = "FUNDED"}
Settled(p, runs) ==
    /\ loc[p].op = "update_competition_winners"
    /\ pc[p] = "done"
    /\ loc[p].runs = runs

(* C3: settlement completeness.  After an uninterrupted                     *)
(* update_competition_winners with winning_choice w >= 0 and nothing        *)
(* running beside it, every ticket that was FUNDED with choice w is         *)
(* WON_UNPAID, every ticket that was FUNDED with another choice is LOST,    *)
(* and the tickets the call made WON_UNPAID or LOST are as many as the      *)
(* tickets that were FUNDED.                                                *)
C3_SettlementComplete ==
    \A p \in Procs :
        (Settled(p, 1) /\ loc[p].w >= 0)
        => /\ \A t \in FundedBefore :
                tickets[t].state =
                    IF snap.tickets[t].choice = loc[p].w THEN "WON_UNPAID" ELSE "LOST"
           /\ Cardinality({t \in TicketIds :
                             /\ tickets[t].state \in {"WON_UNPAID", "LOST"}
                             /\ tickets[t].state # snap.tickets[t].state})
                = Cardinality(FundedBefore)

C3_Witness ==
    \E p \in Procs :
        /\ Settled(p, 1)
        /\ loc[p].w >= 0
        /\ \E t, u \in FundedBefore :
              /\ tickets[t].state = "WON_UNPAID"
              /\ tickets[u].state = "LOST"
        /\ \E t \in TicketIds : tickets[t].state = "INITIAL"

(* C4: void settlement.  After an uninterrupted update_competition_winners  *)
(* with winning_choice < 0 and nothing running beside it, every ticket that *)
(* was FUNDED is CANCELLED_UNPAID and the call has moved no ticket to       *)
(* WON_UNPAID or LOST.                                                      *)
C4_VoidSettlement ==
    \A p \in Procs :
        (Settled(p, 1) /\ loc[p].w < 0)
        => /\ \A t \in FundedBefore : tickets[t].state = "CANCELLED_UNPAID"
           /\ \A t \in TicketIds :
                tickets[t].state \in {"WON_UNPAID", "LOST"}
                => tickets[t].state = snap.tickets[t].state

C4_Witness ==
    \E p \in Procs :
        /\ Settled(p, 1)
        /\ loc[p].w < 0
        /\ Cardinality(FundedBefore) >= 2
        /\ \A t \in FundedBefore : tickets[t].state = "CANCELLED_UNPAID"

(* What one uninterrupted settlement with outcome w makes of the tickets.   *)
Resolved(tk, c, w) ==
    [t \in TicketIds |->
        IF Found(tk[t]) /\ tk[t].competition = c /\ tk[t].state = "FUNDED"
        THEN [tk[t] EXCEPT !.state = IF w < 0 THEN "CANCELLED_UNPAID"
                                     ELSE IF tk[t].choice = w THEN "WON_UNPAID"
                                     ELSE "LOST"]
        ELSE tk[t]]

RestartedOutcome ==
    \A p \in Procs :
        Settled(p, 2)
        => /\ tickets = Resolved(snap.tickets, "c1", loc[p].w)
           /\ Competition.winning_choice = loc[p].w
           /\ Competition.choices =
                 FinalChoices(snap.competitions["c1"].choices,
                              sum_choices_amounts(snap.tickets, "c1"))

(* C7: settlement restart safety.  A settlement interrupted after any       *)
(* prefix of its writes and invoked again in full with the same             *)
(* winning_choice ends with the ticket states, the choices and the          *)
(* winning_choice of one uninterrupted run; and the second run changes no   *)
(* ticket that is no longer FUNDED.                                         *)
C7_RestartSafe ==
    [][/\ RestartedOutcome'
       /\ \A p \in Procs :
            loc[p].runs = 2
            => \A t \in TicketIds :
                 tickets[t].state # "FUNDED" => tickets'[t] = tickets[t]]_vars

C7_Witness ==
    \E p \in Procs :
        /\ Settled(p, 2)
        /\ \E t, u \in FundedBefore :
              /\ tickets[t].state = "WON_UNPAID"
              /\ tickets[u].state = "LOST"
        /\ \E t \in TicketIds : tickets[t].state = "INITIAL"

(* The expired unfunded tickets of the competition.                         *)
Stale(tk) ==
    {t \in TicketIds :
        tk[t].competition = "c1" /\ tk[t].state = "INITIAL" /\ tk[t].expired}

(* C10: purge idempotence.  Of purge runs made back to back, with no ticket *)
(* created or expiring in between, the first deletes the expired INITIAL    *)
(* tickets and restores amount_tickets by their number, once; every later   *)
(* run deletes nothing, returns without reading or writing the competition  *)
(* and leaves the store as the first run left it.                           *)
C10_PurgeIdempotent ==
    \A p \in Procs :
        (loc[p].op = "purge_expired_tickets" /\ (pc[p] = "done" \/ loc[p].runs >= 2))
        => /\ tickets = [t \in TicketIds |->
                            IF t \in Stale(snap.tickets) THEN NoTicket
                            ELSE snap.tickets[t]]
           /\ competitions =
                 [snap.competitions EXCEPT
                    !["c1"].amount_tickets = @ + Cardinality(Stale(snap.tickets))]
           /\ loc[p].runs >= 2 => (pc[p] = "done" /\ loc[p].rowcount = 0)

C10_Witness ==
    \E p \in Procs :
        /\ loc[p].op = "purge_expired_tickets"
        /\ pc[p] = "done"
        /\ loc[p].runs = 2
        /\ Cardinality(Stale(snap.tickets)) >= 1
        /\ Competition.amount_tickets =
              snap.competitions["c1"].amount_tickets + Cardinality(Stale(snap.tickets))

(* C5: once update_competition_winners has completed, no ticket of the     *)
(* competition stays FUNDED for ever, however the settlement interleaves    *)
(* with set_ticket_funded: when a settlement has completed and every call   *)
(* has returned, so that nothing will change any more, no ticket is FUNDED. *)
C5_NoTicketLeftFunded ==
    (/\ \A p \in Procs : Returned(p)
     /\ \A p \in Procs : loc[p].op \in {"update_competition_winners",
                                        "set_ticket_funded"}
     /\ \E p \in Procs : loc[p].op = "update_competition_winners" /\ pc[p] = "done")
    => \A t \in TicketIds :
          ~(tickets[t].competition = "c1" /\ tickets[t].state = "FUNDED")

Forward ==
    {<<"INITIAL", "FUNDED">>,
     <<"FUNDED", "WON_UNPAID">>, <<"FUNDED", "LOST">>, <<"FUNDED", "CANCELLED_UNPAID">>,
     <<"WON_UNPAID", "WON_PAID">>, <<"WON_UNPAID", "WON_PAYMENT_FAILED">>,
     <<"CANCELLED_UNPAID", "CANCELLED_PAID">>,
     <<"CANCELLED_UNPAID", "CANCELLED_PAYMENT_FAILED">>}

StateChanged(t) ==
    /\ Found(tickets[t])
    /\ Found(tickets'[t])
    /\ tickets'[t].state # tickets[t].state

(* C6 as stated: every change of a ticket's state, payout attempts racing   *)
(* on one ticket included, is one of the edges of the state machine.        *)
C6_OnlyForward ==
    [][\A t \in TicketIds :
          StateChanged(t) => <<tickets[t].state, tickets'[t].state>> \in Forward]_vars

(* The step is the update_ticket of a payout attempt on t, and t is no      *)
(* longer in the state the attempt read: another attempt has written it.    *)
RacedPayoutWrite(t) ==
    \E p \in Procs :
        /\ pc[p] = "py_write"
        /\ pc'[p] = "ut_get"
        /\ loc[p].tid = t
        /\ loc[p].seen # tickets[t].state

PayoutResults(seen) == {PayoutState(seen, TRUE), PayoutState(seen, FALSE)}

(* C6, amended: every change of a ticket's state is one of the edges,       *)
(* except the update_ticket write of a payout attempt that races another    *)
(* attempt on the same ticket, which replaces the result the other attempt  *)
(* recorded by its own (WON_PAID <-> WON_PAYMENT_FAILED, CANCELLED_PAID <-> *)
(* CANCELLED_PAYMENT_FAILED).                                               *)
C6_ForwardUnlessPayoutRace ==
    [][\A t \in TicketIds :
          StateChanged(t)
          => \/ /\ <<tickets[t].state, tickets'[t].state>> \in Forward
                /\ ~RacedPayoutWrite(t)
             \/ /\ RacedPayoutWrite(t)
                /\ \E seen \in {"WON_UNPAID", "CANCELLED_UNPAID"} :
                      {tickets[t].state, tickets'[t].state} = PayoutResults(seen)]_vars

C6_Witness ==
    \E p \in Procs :
        /\ loc[p].op = "payout"
        /\ pc[p] = "done"
        /\ snap.tickets[loc[p].tid].state = "FUNDED"
        /\ tickets[loc[p].tid].state \in PayoutResults(loc[p].seen)
        /\ \A q \in Procs \ {p} : loc[q].op = "update_competition_winners"

(* C8: once the competition has left INITIAL, no step of create_ticket,     *)
(* set_ticket_funded, purge_expired_tickets or update_competition changes   *)
(* its amount_tickets, sold or choices.                                     *)
C8_AggregatesFrozen ==
    [][Competition.state # "INITIAL"
       => /\ competitions'["c1"].amount_tickets = Competition.amount_tickets
          /\ competitions'["c1"].sold = Competition.sold
          /\ competitions'["c1"].choices = Competition.choices]_vars

OpenStates == {"INITIAL", "FUNDED", "WON_UNPAID", "CANCELLED_UNPAID"}

(* C11: completeness predicate.  For every population of tickets,           *)
(* is_competition_payment_complete(c) returns true if and only if no ticket *)
(* of competition c is INITIAL, FUNDED, WON_UNPAID or CANCELLED_UNPAID; a   *)
(* competition with no tickets is complete.                                 *)
C11_CompletenessPredicate ==
    \A p \in Procs :
        (loc[p].op = "is_competition_payment_complete" /\ pc[p] = "done")
        => /\ loc[p].complete
                <=> ~ \E t \in TicketIds :
                        /\ tickets[t].competition = loc[p].cid
                        /\ tickets[t].state \in OpenStates
           /\ (\A t \in TicketIds : tickets[t].competition # loc[p].cid)
                => loc[p].complete

C11_Witness ==
    \E p \in Procs :
        /\ loc[p].op = "is_competition_payment_complete"
        /\ pc[p] = "done"
        /\ loc[p].complete
        /\ \E t \in TicketIds :
              tickets[t].competition = loc[p].cid /\ tickets[t].state = "LOST"
        /\ \E t \in TicketIds :
              tickets[t].competition # loc[p].cid /\ tickets[t].state = "FUNDED"

(* C12: creation round trip.  For any list of choice titles,                *)
(* create_competition followed by get_competition returns a competition     *)
(* whose choices are the same titles in the same order, each with total 0,  *)
(* with winning_choice = -1, sold = 0, state = INITIAL and amount_tickets   *)
(* equal to the requested capacity.                                         *)
C12_CreationRoundTrip ==
    \A p \in Procs :
        (loc[p].op = "create_competition" /\ Returned(p))
        => /\ pc[p] = "done"
           /\ Len(loc[p].row.choices) = Len(loc[p].choices)
           /\ \A i \in 1 .. Len(loc[p].choices) :
                /\ loc[p].row.choices[i].title = loc[p].choices[i].title
                /\ loc[p].row.choices[i].total = 0
           /\ loc[p].row.winning_choice = -1
           /\ loc[p].row.sold = 0
           /\ loc[p].row.state = "INITIAL"
           /\ loc[p].row.amount_tickets = loc[p].amount

C12_Witness ==
    \E p \in Procs :
        /\ loc[p].op = "create_competition"
        /\ pc[p] = "done"
        /\ Len(loc[p].choices) = 2
        /\ loc[p].choices[1].title # loc[p].choices[2].title
        /\ loc[p].row.amount_tickets > 0

(* The create_ticket calls made against the competition.                    *)
CreateCalls == {p \in Procs : loc[p].op = "create_ticket" /\ loc[p].cid = "c1"}

(* The step is the conditional write of create_ticket call p, and it applies. *)
DecrementApplied(p) ==
    /\ pc[p] = "ct_write"
    /\ pc'[p] = "ct_get"

(* C13: no lost inventory decrement.  Among concurrent create_ticket calls  *)
(* against one INITIAL competition, every conditional write that applies    *)
(* observed the value amount_tickets has at that moment and lowers it by 1, *)
(* nothing else changes amount_tickets (so no two applied writes observed   *)
(* the same old value), and once the N calls have all returned              *)
(* amount_tickets is its initial value minus N.                             *)
C13_NoLostDecrement ==
    /\ []((\A p \in Procs : Returned(p))
          => Competition.amount_tickets =
                snap.competitions["c1"].amount_tickets - Cardinality(CreateCalls))
    /\ [][/\ \A p \in Procs :
                DecrementApplied(p)
                => (/\ loc[p].old = Competition.amount_tickets
                    /\ competitions'["c1"].amount_tickets = loc[p].old - 1)
          /\ (competitions'["c1"].amount_tickets # Competition.amount_tickets)
                => (\E p \in CreateCalls : DecrementApplied(p))]_vars

C13_Witness ==
    /\ \A p \in Procs : pc[p] = "done"
    /\ CreateCalls = Procs
    /\ Cardinality(Procs) >= 2
    /\ Competition.amount_tickets =
          snap.competitions["c1"].amount_tickets - Cardinality(Procs)

(* The tickets that were INITIAL and for which set_ticket_funded was called. *)
FundedNow == {t \in TicketIds : snap.tickets[t].state = "INITIAL" /\ FundCalls(t) # {}}

RECURSIVE StakeOf(_, _)
StakeOf(rows, ch) ==
    IF rows = {}
    THEN 0
    ELSE LET t == CHOOSE x \in rows : TRUE
         IN (IF snap.tickets[t].choice = ch THEN snap.tickets[t].amount ELSE 0)
            + StakeOf(rows \ {t}, ch)

(* C14: no lost funding fold across tickets.  When set_ticket_funded runs   *)
(* concurrently for N distinct INITIAL tickets of one INITIAL competition,  *)
(* then once all calls have returned sold has grown by exactly N and the    *)
(* total of every choice i by exactly the sum of the amounts of those       *)
(* tickets whose choice is i.                                               *)
C14_NoLostFold ==
    (\A p \in Procs : Returned(p))
    => /\ Competition.sold = snap.competitions["c1"].sold + Cardinality(FundedNow)
       /\ \A ch \in Choices :
            Competition.choices[ch + 1].total =
                snap.competitions["c1"].choices[ch + 1].total + StakeOf(FundedNow, ch)

C14_Witness ==
    /\ \A p \in Procs : pc[p] = "done" /\ loc[p].cas
    /\ Cardinality(FundedNow) >= 2
    /\ \E t, u \in FundedNow : t # u /\ snap.tickets[t].choice = snap.tickets[u].choice
    /\ Competition.sold = snap.competitions["c1"].sold + Cardinality(FundedNow)

(* The tickets of the competition that have reached FUNDED.                 *)
ReachedFunded ==
    {t \in TicketIds :
        /\ Found(tickets[t])
        /\ tickets[t].competition = "c1"
        /\ tickets[t].state # "INITIAL"}

(* C15: the final per-choice totals persisted at settlement are the stake   *)
(* of funded tickets only: after sum_choices_amounts and                    *)
(* update_competition_winners, choices[i].total is the sum of the amounts   *)
(* of the competition's tickets with choice i that have reached FUNDED;     *)
(* tickets still INITIAL contribute nothing.                                *)
C15_FinalTotalsFundedOnly ==
    \A p \in Procs :
        Settled(p, 1)
        => \A ch \in Choices :
              Competition.choices[ch + 1].total =
                  SumAmounts(tickets, {t \in ReachedFunded : tickets[t].choice = ch})

(* The step is a statement of a create_ticket call p against the competition. *)
CreateStep(p) ==
    /\ loc'[p].op = "create_ticket"
    /\ loc'[p].cid = "c1"
    /\ pc'[p] # pc[p]

(* C16: create_ticket against an existing competition that is no longer    *)
(* INITIAL still inserts the ticket in state INITIAL and returns it, and    *)
(* leaves amount_tickets unchanged: the read leaves the loop without a      *)
(* write, and a write still pending is rejected.                            *)
C16_CreateOnClosed ==
    [][\A p \in Procs :
          (CreateStep(p) /\ Competition.state # "INITIAL")
          => /\ competitions' = competitions
             /\ pc'[p] # "failed"
             /\ pc[p] = "idle"
                  => /\ ~Found(tickets[loc'[p].tid])
                     /\ tickets'[loc'[p].tid].state = "INITIAL"
                     /\ tickets'[loc'[p].tid].competition = "c1"
             /\ pc[p] = "ct_read" => pc'[p] = "ct_get"
             /\ pc[p] = "ct_write" => pc'[p] = "ct_read"
             /\ pc[p] = "ct_get" => (pc'[p] = "done" /\ Found(tickets[loc[p].tid]))]_vars

C16_Witness ==
    \E p \in Procs :
        /\ loc[p].op = "create_ticket"
        /\ loc[p].cid = "c1"
        /\ pc[p] = "done"
        /\ Competition.state = "CLOSED"
        /\ ~Found(snap.tickets[loc[p].tid])
        /\ tickets[loc[p].tid].state = "INITIAL"
        /\ Competition.amount_tickets = snap.competitions["c1"].amount_tickets
        /\ \A q \in Procs \ {p} : pc[q] = "idle"

(* The purge calls, and the step in which the restoring write of purge run  *)
(* p applies.                                                               *)
PurgeCalls == {p \in Procs : loc[p].op = "purge_expired_tickets"}

RestoreApplied(p) ==
    /\ pc[p] = "pg_write"
    /\ pc'[p] = "done"

RECURSIVE Deleted(_)
Deleted(calls) ==
    IF calls = {}
    THEN 0
    ELSE LET p == CHOOSE x \in calls : TRUE
         IN loc[p].rowcount + Deleted(calls \ {p})

(* C17: no lost inventory restore.  With create_ticket calls and other      *)
(* purge runs in flight, a purge run that deleted k > 0 tickets returns     *)
(* only through its restoring write, which applies on the current value of  *)
(* amount_tickets and raises it by exactly k; every applied decrement       *)
(* lowers it by exactly 1; nothing else changes it; and once a purge run    *)
(* per purge call and the create_ticket calls have all returned,            *)
(* amount_tickets is its initial value, minus the decrements, plus the      *)
(* deleted counts.                                                          *)
C17_NoLostRestore ==
    /\ []((/\ \A p \in Procs : Returned(p)
           /\ Procs = CreateCalls \cup PurgeCalls
           /\ \A p \in PurgeCalls : loc[p].runs = 1)
          => Competition.amount_tickets =
                snap.competitions["c1"].amount_tickets
                - Cardinality(CreateCalls) + Deleted(PurgeCalls))
    /\ [][/\ \A p \in Procs :
                RestoreApplied(p)
                => (/\ loc[p].rowcount > 0
                    /\ loc[p].old = Competition.amount_tickets
                    /\ competitions'["c1"].amount_tickets =
                          Competition.amount_tickets + loc[p].rowcount)
          /\ \A p \in Procs :
                DecrementApplied(p)
                => competitions'["c1"].amount_tickets = Competition.amount_tickets - 1
          /\ (competitions'["c1"].amount_tickets # Competition.amount_tickets)
                => (\E p \in Procs : DecrementApplied(p) \/ RestoreApplied(p))
          /\ \A p \in Procs :
                (/\ loc'[p].op = "purge_expired_tickets"
                 /\ loc'[p].rowcount > 0
                 /\ pc'[p] = "done"
                 /\ <<pc'[p], loc'[p]>> # <<pc[p], loc[p]>>)
                => RestoreApplied(p)]_vars

C17_Witness ==
    \E p, q \in Procs :
        /\ p \in PurgeCalls /\ pc[p] = "done" /\ loc[p].runs = 1 /\ loc[p].rowcount > 0
        /\ q \in CreateCalls /\ pc[q] = "done"
        /\ Competition.amount_tickets =
              snap.competitions["c1"].amount_tickets - 1 + loc[p].rowcount

(* C20: inventory conservation.  While the competition stays INITIAL, under *)
(* any interleaving of create_ticket, set_ticket_funded and                 *)
(* purge_expired_tickets, in every state where no create_ticket or purge is *)
(* in flight, amount_tickets plus the number of tickets of the competition  *)
(* in the store is the capacity C.                                          *)
C20_InventoryConservation ==
    (\A p \in Procs :
        loc[p].op \in {"create_ticket", "purge_expired_tickets"} => Returned(p))
    => /\ Competition.amount_tickets + Cardinality(CompetitionTickets(tickets, "c1"))
            = Cardinality(TicketIds)
       /\ Competition.state = "INITIAL"

C20_Witness ==
    \E p, q \in Procs :
        /\ p \in CreateCalls /\ pc[p] = "done"
        /\ loc[q].op = "set_ticket_funded" /\ pc[q] = "sf_write"
        /\ Cardinality(CompetitionTickets(tickets, "c1"))
              > Cardinality(CompetitionTickets(snap.tickets, "c1"))
        /\ Competition.amount_tickets + Cardinality(CompetitionTickets(tickets, "c1"))
              = Cardinality(TicketIds)

(* The step is a conditional write of call p that is rejected: the call     *)
(* goes back to its read.                                                   *)
WriteRejected(p) ==
    \/ pc[p] = "ct_write" /\ pc'[p] = "ct_read"
    \/ pc[p] = "sf_write" /\ pc'[p] = "sf_read"
    \/ pc[p] = "pg_write" /\ pc'[p] = "pg_read"

InFlight(p) == pc[p] \notin {"idle", "done", "failed"}

(* C18: the retry loops terminate.  A conditional write of create_ticket,   *)
(* set_ticket_funded or purge_expired_tickets is rejected only when the     *)
(* column it compares no longer has the value the call read, another writer *)
(* having changed the competition row in between; and with two calls on the *)
(* competition, each scheduled again and again, every call in flight        *)
(* eventually returns.                                                      *)
C18_RetryLoopsTerminate ==
    /\ [][\A p \in Procs :
             WriteRejected(p)
             => (IF loc[p].op = "set_ticket_funded"
                 THEN competitions[loc[p].cid].sold
                 ELSE competitions[loc[p].cid].amount_tickets) # loc[p].old]_vars
    /\ \A p \in InventoryCalls : InFlight(p) ~> Returned(p)

C18_Witness ==
    \E p, q \in Procs :
        /\ pc[p] = "pg_write"
        /\ loc[p].old # Competition.amount_tickets
        /\ q \in CreateCalls
        /\ pc[q] = "done"

(* C19: winners are consistent with the recorded outcome.  In every         *)
(* reachable state, after any sequence of update_competition_winners calls, *)
(* calls with different winning_choice values included, interleaved with    *)
(* set_ticket_funded, every ticket that is WON_UNPAID, WON_PAID or          *)
(* WON_PAYMENT_FAILED has the competition's current winning_choice as its   *)
(* choice, and no LOST ticket has it.                                       *)
C19_WinnersConsistent ==
    \A t \in TicketIds :
        tickets[t].competition = "c1"
        => /\ tickets[t].state \in {"WON_UNPAID", "WON_PAID", "WON_PAYMENT_FAILED"}
                => tickets[t].choice = Competition.winning_choice
           /\ tickets[t].state = "LOST"
                => tickets[t].choice # Competition.winning_choice

(* The tickets that were in the store and have been deleted since.          *)
Purged == {t \in TicketIds : Found(snap.tickets[t]) /\ ~Found(tickets[t])}

(* C21: purge and funding never both claim one ticket.  Whatever the order  *)
(* of the statements of purge_expired_tickets and set_ticket_funded on one  *)
(* expired INITIAL ticket, a call that won the compare-and-swap always      *)
(* finds its ticket stored and FUNDED; and once both have returned, either  *)
(* the ticket is deleted, its inventory restored and nothing folded, or it  *)
(* is FUNDED, folded into sold and choices, and no inventory was restored   *)
(* for it.                                                                  *)
C21_PurgeOrFund ==
    /\ \A q \in Procs :
          (loc[q].op = "set_ticket_funded" /\ loc[q].cas)
          => tickets[loc[q].tid].state = "FUNDED"
    /\ \A p, q \in Procs :
          (/\ loc[p].op = "purge_expired_tickets" /\ pc[p] = "done" /\ loc[p].runs = 1
           /\ loc[q].op = "set_ticket_funded" /\ Returned(q)
           /\ snap.tickets[loc[q].tid].state = "INITIAL"
           /\ snap.tickets[loc[q].tid].expired)
          => LET t == loc[q].tid
             IN /\ loc[p].rowcount = Cardinality(Purged)
                /\ Competition.amount_tickets =
                      snap.competitions["c1"].amount_tickets + Cardinality(Purged)
                /\ \/ /\ t \in Purged
                      /\ ~loc[q].cas
                      /\ Competition.sold = snap.competitions["c1"].sold
                      /\ Competition.choices = snap.competitions["c1"].choices
                   \/ /\ t \notin Purged
                      /\ loc[q].cas
                      /\ pc[q] = "done"
                      /\ tickets[t].state = "FUNDED"
                      /\ Competition.sold = snap.competitions["c1"].sold + 1
                      /\ Competition.choices =
                            AddTotal(snap.competitions["c1"].choices,
                                     snap.tickets[t].choice, snap.tickets[t].amount)

(* The purge ran while the funding call was between its compare-and-swap    *)
(* and its fold, and left the ticket alone.                                 *)
C21_Witness ==
    \E p, q \in Procs :
        /\ loc[p].op = "purge_expired_tickets" /\ pc[p] = "done" /\ loc[p].runs = 1
        /\ loc[p].rowcount > 0
        /\ loc[q].op = "set_ticket_funded" /\ pc[q] = "sf_write" /\ loc[q].cas
        /\ snap.tickets[loc[q].tid].expired
        /\ tickets[loc[q].tid].state = "FUNDED"

(* The step is the conditional write of funding call q, and it applies.     *)
FoldApplied(q) ==
    /\ pc[q] = "sf_write"
    /\ pc'[q] = "done"

(* Settlement p has persisted its choices and winning_choice.               *)
OutcomeWritten(p) ==
    /\ loc[p].op = "update_competition_winners"
    /\ pc[p] \in {"st_void", "st_win", "st_lose", "done"}

(* C22: the settlement snapshot is not overwritten by a stale fold.  When   *)
(* update_competition_winners has persisted the final totals while a        *)
(* set_ticket_funded call had read the competition row and not yet written  *)
(* (the choices it holds are no longer the competition's), the fold's       *)
(* conditional write leaves the competition's choices as the settlement     *)
(* wrote them.                                                              *)
C22_NoStaleOverwrite ==
    [][\A q \in Procs :
          (/\ FoldApplied(q)
           /\ \E p \in Procs : OutcomeWritten(p)
           /\ loc[q].choices # Competition.choices)
          => Competition.choices' = Competition.choices]_vars

====
